---- MODULE Spec2Model ----
(***************************************************************************)
(* Courier / parcel booking application: booking creation, payment,        *)
(* delivery-status lifecycle, cancellation, feedback and the cost          *)
(* calculation of the officer booking form.                                *)
(*                                                                         *)
(* Money is kept in integers.  Rupee amounts that the code keeps as        *)
(* fractional doubles are scaled: "paise" are 1/100 rupee, and the tax     *)
(* amount is kept in 1/10000 rupee.  For every weight 1..50000 and every   *)
(* charge combination the double arithmetic of the code and this exact     *)
(* arithmetic round to the same rupee total.                               *)
(***************************************************************************)
EXTENDS Integers, Sequences, FiniteSets, TLC

\* ------------------------------------------------------------------ bounds
MaxBookings == 2
WeightStep == 100

\* ------------------------------------------------------- program constants
MinWeight == 100
MaxWeight == 50000
baseRate == 50
adminFee == 50

\* ------------------------------------------------------------ value domains
ParcelStatus == {"NEW", "BOOKED", "IN_TRANSIT", "DELIVERED", "CANCELLED"}

\* The Customer table: registered users and their role (never deleted).
Users == {"c1", "o1"}

roleOf(u) == IF u = "o1" THEN "OFFICER" ELSE "CUSTOMER"

\* Bearer tokens: subject e-mail and role.  "ghost" is a subject that
\* resolves to no row of the Customer table.
Tokens ==
    {[email |-> u, role |-> roleOf(u)] : u \in Users}
        \cup {[email |-> "ghost", role |-> r] : r \in {"CUSTOMER", "OFFICER"}}

DeliveryTypes == {"STANDARD", "EXPRESS", "SAME_DAY"}
PackingPreferences == {"BASIC", "PREMIUM"}

\* Request bodies.  parcelServiceCost and parcelStatus stand for whatever
\* cost / status a client may put into the JSON body.
MkRequest(w, d, p) ==
    [weight |-> w, deliveryType |-> d, packing |-> p,
     parcelServiceCost |-> 0, parcelStatus |-> "DELIVERED"]

LifecycleRequests == {MkRequest(2000, "STANDARD", "BASIC")}

\* Requests of the booking-creation specification.
CreateRequests ==
    {MkRequest(w, d, p) : w \in {1000, 5000},
                          d \in DeliveryTypes, p \in PackingPreferences}

\* Values of the officer form: weight 0 is the empty field; the sampled
\* weights step through the accepted range, and one lies above it.  The
\* empty string is an unset select, "OVERNIGHT" a value outside the options.
FormWeights ==
    {0, MaxWeight + 1}
        \cup {w \in MinWeight..MaxWeight : (w - MinWeight) % WeightStep = 0}
FormDeliveryTypes == {"", "STANDARD", "EXPRESS", "SAME_DAY", "OVERNIGHT"}
FormPackingPreferences == {"", "BASIC", "STANDARD", "PREMIUM"}

Ratings == {5}

\* What the officer delivery-status page can ask for.
DeliveryTargets == {"IN_TRANSIT", "DELIVERED"}

\* Listing requests: the page and size parameters a request can carry.
MaxListed == 25
PageValues == {-1, 0, 1, 2}
SizeValues == {0, 1, 3, 10}

\* Feedback rows of the sampled stores, in creation order: customer name,
\* booking id, description.
FeedbackRows ==
    <<[customerName |-> <<"A", "l">>, bookingId |-> <<"B", "K", "1">>,
       feedbackDescription |-> <<"o", "k">>],
      [customerName |-> <<"B", "o">>, bookingId |-> <<"B", "K", "2">>,
       feedbackDescription |-> <<"l", "a", "t", "e">>],
      [customerName |-> <<"C", "y">>, bookingId |-> <<"B", "K", "3">>,
       feedbackDescription |-> <<"b", "a", "d">>]>>

\* Filter strings of the sampled requests.
FilterValues ==
    {<<>>, <<" ">>, <<"a">>, <<" ", "A", " ">>, <<"k">>, <<"1">>, <<"z">>, <<"_">>}

\* Registration and login requests.  Strings are sequences of characters.
Emails == {<<"e", "1">>, <<"e", "2">>}
RoleNames == {"CUSTOMER", "OFFICER", "ADMIN"}
Passwords == {"p", "q"}

\* System.currentTimeMillis() at three registrations, in increasing order,
\* as decimal strings; the second is 100 seconds after the first.
Times ==
    <<<<"1", "7", "0", "0", "0", "0", "0", "0", "1", "2", "3", "4", "5">>,
      <<"1", "7", "0", "0", "0", "0", "0", "1", "1", "2", "3", "4", "5">>,
      <<"1", "7", "0", "0", "0", "0", "0", "2", "1", "2", "3", "4", "6">>>>

\* (int)(Math.random() * 1000) of the sampled registrations.
Randoms == {7, 42}

\* Clock readings (milliseconds) at which officer bookings are created.
MaxClock == 2

\* Change-password requests: user ids (one of them unknown) and password
\* fields, "null" standing for a field the request does not carry.
UserIds == {1, 2, 3}
PasswordFields == {"p", "q", "null"}

\* Requests the backend serves at the same time.
MaxInflight == 2

\* The amount parameter of the invoice page's URL: absent, not a number,
\* numbers, and a number followed by other characters.
AmountParams ==
    {<<>>, <<"a", "b", "c">>,
     <<"1", "9", "9", ".", "9", "9", "9">>, <<"1", "2", "a", "b", "c">>}

\* generateInvoice calls the invoice page has outstanding at one time.
MaxRequests == 2

\* What the officer types into the feedback search box.
SearchFilters == {<<>>, <<"a">>, <<"k">>}

\* The paginator's page sizes the officer picks from (of 5, 10, 25, 50).
PageSizeOptions == {5, 10}

\* ----------------------------------------------------------------- state
VARIABLES
    bookings,    \* Booking table: sequence of rows, index = numeric id
    payments,    \* Payment table: the rows of each booking, in insertion order
    feedbacks,   \* Feedback table: the rows of each booking, in insertion order
    listed,      \* AllBookingsComponent.bookings: statuses as last loaded
    resp,        \* the response of the last request
    form,        \* OfficerBookingComponent.bookingForm values
    ui,          \* OfficerBookingComponent cost fields
    quote,       \* service cost computed by the booking endpoints
    feedbackTable, \* Feedback table as the officer listing queries read it:
                   \* rows in creation order with the columns they filter on
    pageResp,    \* the response of the last paginated listing request
    customers,   \* Customer table: rows in insertion order
    auth,        \* the AuthResponse of the last register / login request
    inflight,    \* backend requests that have read the database and have not
                 \* yet written to it, and the outcome of those that have
    invoice,     \* OfficerInvoiceComponent fields and its pending request
    officerFeedback \* OfficerFeedbackComponent fields and its pending requests

vars == <<bookings, payments, feedbacks, listed, resp, form, ui, quote,
          feedbackTable, pageResp, customers, auth,
          inflight, invoice, officerFeedback>>

backendVars == <<bookings, payments, feedbacks, listed, resp>>
costVars == <<form, ui, quote>>
listingVars == <<feedbackTable, pageResp>>
authVars == <<customers, auth>>
requestVars == <<inflight>>
componentVars == <<invoice, officerFeedback>>

\* No listing request and no authentication request has been answered yet.
NoPage == [op |-> "none"]
NoAuth == [op |-> "none"]

\* invoiceData = null, and paidAmount = null.
NoInvoiceData == [present |-> FALSE, serviceCost |-> 0, demo |-> FALSE]
NoAmount == [isNull |-> TRUE, isNaN |-> FALSE, value |-> 0]

\* OfficerInvoiceComponent as constructed: no invoice, not loading, total 0.
\* Amounts are in thousandths of a rupee, totalAmount in hundredths; amount
\* is the route's amount parameter, requests the booking ids of the
\* generateInvoice calls not yet answered, detailRequests the number of
\* getBookingById calls not yet answered.
OfficerInvoiceComponent ==
    [invoiceData |-> NoInvoiceData, isLoading |-> FALSE, errorMessage |-> "",
     paidAmount |-> NoAmount, totalAmount |-> 0,
     amount |-> <<>>, requests |-> <<>>, detailRequests |-> 0]

\* OfficerFeedbackComponent as constructed; requests holds the
\* getOfficerFeedbacks calls in the order they were issued.
OfficerFeedbackComponent ==
    [feedbacks |-> <<>>, currentPage |-> 0, pageSize |-> 10, totalElements |-> 0,
     isLoading |-> FALSE, searchFilter |-> <<>>, requests |-> <<>>]

BookingIds == 1..Len(bookings)

Response(op, b, ok) == [op |-> op, booking |-> b, success |-> ok]

\* -------------------------------------------------------- cost calculator
deliveryChargeOf(d) ==
    CASE d = "STANDARD" -> 30
      [] d = "EXPRESS" -> 80
      [] d = "SAME_DAY" -> 150
      [] OTHER -> 30

packingChargeOf(p) ==
    CASE p = "BASIC" -> 10
      [] p = "PREMIUM" -> 20
      [] OTHER -> 10

\* CostCalculator.calculateServiceCost: rupees, rounded at the last step.
\* subtotal in paise; times 1.05 gives 1/10000 rupee * 100; Math.round.
calculateServiceCost(w, d, p, isOfficerBooking) ==
    LET subtotalPaise ==
            100 * (50 + deliveryChargeOf(d) + packingChargeOf(p)
                      + (IF isOfficerBooking THEN 50 ELSE 0)) + 2 * w
    IN  (subtotalPaise * 105 + 5000) \div 10000

\* A customer endpoint that passes the officer flag.
createBooking_serviceCost_OfficerFlag(req) ==
    calculateServiceCost(req.weight, req.deliveryType, req.packing, TRUE)

createBooking_serviceCost(req) ==
    calculateServiceCost(req.weight, req.deliveryType, req.packing, FALSE)

\* An officer endpoint that passes the weight in kilograms.
createOfficerBooking_serviceCost_Kilograms(req) ==
    calculateServiceCost(req.weight \div 1000, req.deliveryType, req.packing, TRUE)

createOfficerBooking_serviceCost(req) ==
    calculateServiceCost(req.weight, req.deliveryType, req.packing, TRUE)

\* ----------------------------------------------------------- repositories
\* AuthService.getCustomerByEmail: the row, or "null".
getCustomerByEmail(email) == IF email \in Users THEN email ELSE "null"

\* BookingService.getBookingById: the numeric id, or 0 for null.
getBookingById(bookingId) == IF bookingId \in BookingIds THEN bookingId ELSE 0

\* String.valueOf(n) for a non-negative int.
digitChar(d) == <<"0", "1", "2", "3", "4", "5", "6", "7", "8", "9">>[d + 1]

RECURSIVE valueOf(_)
valueOf(n) == IF n < 10 THEN <<digitChar(n)>> ELSE valueOf(n \div 10) \o <<digitChar(n % 10)>>

\* The bookingId the Booking constructor generates for the n-th booking:
\* one of its own for every booking.
constructorBookingId(n) == <<"G">> \o valueOf(n)

\* ------------------------------------------------------ booking creation
\* A createBooking that does not test the role of the token.
CreateBooking_AnyRole(tok, req) ==
    /\ Len(bookings) < MaxBookings
    /\ LET customer == getCustomerByEmail(tok.email)
       IN  IF customer = "null"
           THEN /\ resp' = Response("createBooking", 0, FALSE)
                /\ UNCHANGED bookings
           ELSE /\ bookings' = Append(bookings,
                       [bookingId |-> constructorBookingId(Len(bookings) + 1),
                        customer |-> customer,
                        weight |-> req.weight,
                        deliveryType |-> req.deliveryType,
                        packing |-> req.packing,
                        cost |-> createBooking_serviceCost(req),
                        status |-> "NEW"])
                /\ resp' = Response("createBooking", Len(bookings) + 1, TRUE)
    /\ UNCHANGED <<payments, feedbacks, listed, costVars, requestVars, componentVars, listingVars, authVars>>

CreateBooking(tok, req) ==
    /\ Len(bookings) < MaxBookings
    /\ LET customer == getCustomerByEmail(tok.email)
       IN  IF tok.role # "CUSTOMER" \/ customer = "null"
           THEN /\ resp' = Response("createBooking", 0, FALSE)
                /\ UNCHANGED bookings
           ELSE /\ bookings' = Append(bookings,
                       [bookingId |-> constructorBookingId(Len(bookings) + 1),
                        customer |-> customer,
                        weight |-> req.weight,
                        deliveryType |-> req.deliveryType,
                        packing |-> req.packing,
                        cost |-> createBooking_serviceCost(req),
                        status |-> "NEW"])
                /\ resp' = Response("createBooking", Len(bookings) + 1, TRUE)
    /\ UNCHANGED <<payments, feedbacks, listed, costVars, requestVars, componentVars, listingVars, authVars>>

\* The bookings that carry the booking id.
findByBookingId(bookingId) == {i \in 1..Len(bookings) : bookings[i].bookingId = bookingId}

\* BookingController.createOfficerBooking at clock reading millis.  A
\* booking id
\* that is already taken is saved like any other, or save throws when the
\* column carries a unique constraint.
CreateOfficerBookingAt(tok, req, millis, constraintRejects) ==
    /\ Len(bookings) < MaxBookings
    /\ LET officer == getCustomerByEmail(tok.email)
           bookingId == <<"B", "K">> \o valueOf(millis)
       IN  IF tok.role # "OFFICER" \/ officer = "null"
           THEN /\ resp' = Response("createOfficerBooking", 0, FALSE)
                /\ UNCHANGED bookings
           ELSE IF constraintRejects /\ findByBookingId(bookingId) # {}
           THEN /\ resp' = Response("createOfficerBooking", 0, FALSE)
                /\ UNCHANGED bookings
           ELSE /\ bookings' = Append(bookings,
                       [bookingId |-> bookingId,
                        customer |-> officer,
                        weight |-> req.weight,
                        deliveryType |-> req.deliveryType,
                        packing |-> req.packing,
                        cost |-> createOfficerBooking_serviceCost(req),
                        status |-> "BOOKED"])
                /\ resp' = Response("createOfficerBooking", Len(bookings) + 1, TRUE)
    /\ UNCHANGED <<payments, feedbacks, listed, costVars, requestVars, componentVars, listingVars, authVars>>

\* createOfficerBooking with every booking created in a millisecond of its
\* own.
CreateOfficerBooking(tok, req) ==
    CreateOfficerBookingAt(tok, req, Len(bookings) + 1, FALSE)

\* ---------------------------------------------------------------- payment
\* PaymentService.processPayment rejects (throws) when the booking already
\* has a Payment.
PaymentExists(b) == payments[b] # <<>>

\* A save that writes the row without its service cost.
updateBooking_DroppingCost(b, row, saveFails) ==
    IF saveFails THEN bookings ELSE [bookings EXCEPT ![b] = [row EXCEPT !.cost = 0]]

\* BookingService.updateBooking: repository.save; an exception thrown by the
\* save is swallowed (null is returned) and the row stays as it was.
updateBooking(b, row, saveFails) ==
    IF saveFails THEN bookings ELSE [bookings EXCEPT ![b] = row]

\* A variant that sets and saves status BOOKED before the payment is made.
ProcessPayment_UpdateFirst(bookingId, saveFails) ==
    LET b == getBookingById(bookingId)
    IN  /\ IF b = 0
           THEN /\ resp' = Response("processPayment", bookingId, FALSE)
                /\ UNCHANGED <<bookings, payments>>
           ELSE /\ bookings' = updateBooking(b, [bookings[b] EXCEPT !.status = "BOOKED"],
                                              saveFails)
                /\ IF PaymentExists(b)
                   THEN /\ resp' = Response("processPayment", bookingId, FALSE)
                        /\ UNCHANGED payments
                   ELSE /\ payments' = [payments EXCEPT
                               ![b] = Append(@, [amount |-> bookings[b].cost])]
                        /\ resp' = Response("processPayment", bookingId, TRUE)
        /\ UNCHANGED <<feedbacks, listed, costVars, requestVars, componentVars, listingVars, authVars>>

\* PaymentController.processPayment
ProcessPayment(bookingId, saveFails) ==
    LET b == getBookingById(bookingId)
    IN  /\ IF b = 0
           THEN \* "Booking not found"
                /\ resp' = Response("processPayment", bookingId, FALSE)
                /\ UNCHANGED <<bookings, payments>>
           ELSE IF PaymentExists(b)
           THEN \* paymentService.processPayment throws: the catch block answers
                /\ resp' = Response("processPayment", bookingId, FALSE)
                /\ UNCHANGED <<bookings, payments>>
           ELSE /\ payments' = [payments EXCEPT
                       ![b] = Append(@, [amount |-> bookings[b].cost])]
                \* booking.setParcelStatus(BOOKED); updateBooking, result unchecked
                /\ bookings' = updateBooking(b, [bookings[b] EXCEPT !.status = "BOOKED"],
                                              saveFails)
                /\ resp' = Response("processPayment", bookingId, TRUE)
        /\ UNCHANGED <<feedbacks, listed, costVars, requestVars, componentVars, listingVars, authVars>>

\* ------------------------------------------------- delivery status, cancel
\* Officer delivery-status update: BOOKED -> IN_TRANSIT -> DELIVERED only.
UpdateDeliveryStatus(bookingId, target) ==
    LET b == getBookingById(bookingId)
        allowed == /\ b # 0
                   /\ \/ bookings[b].status = "BOOKED" /\ target = "IN_TRANSIT"
                      \/ bookings[b].status = "IN_TRANSIT" /\ target = "DELIVERED"
    IN  /\ IF allowed
           THEN bookings' = [bookings EXCEPT ![b].status = target]
           ELSE UNCHANGED bookings
        /\ resp' = Response("updateDeliveryStatus", bookingId, allowed)
        /\ UNCHANGED <<payments, feedbacks, listed, costVars, requestVars, componentVars, listingVars, authVars>>

\* A cancellation that does not look at the persisted status.
cancelAllowed_AnyStatus(b) == b # 0

\* The cancellation endpoint permits BOOKED -> CANCELLED only.
cancelAllowed(b) == b # 0 /\ bookings[b].status = "BOOKED"

\* Cancellation request sent straight to the endpoint.
CancelBooking(bookingId) ==
    LET b == getBookingById(bookingId)
    IN  /\ IF cancelAllowed(b)
           THEN bookings' = [bookings EXCEPT ![b].status = "CANCELLED"]
           ELSE UNCHANGED bookings
        /\ resp' = Response("cancelBooking", bookingId, cancelAllowed(b))
        /\ UNCHANGED <<payments, feedbacks, listed, costVars, requestVars, componentVars, listingVars, authVars>>

\* ------------------------------------------------- officer all-bookings UI
\* The rows as the listing endpoint returns them now.
currentListing == [i \in BookingIds |-> bookings[i].status]

\* AllBookingsComponent.loadBookings (ngOnInit, paging, filter buttons)
LoadBookings ==
    /\ listed' = currentListing
    /\ resp' = Response("getOfficerBookings", 0, TRUE)
    /\ UNCHANGED <<bookings, payments, feedbacks, costVars, requestVars, componentVars, listingVars, authVars>>

\* AllBookingsComponent.cancelBooking: the button exists only on rows loaded
\* as BOOKED; on success the list is loaded again.
AllBookings_cancelBooking(bookingId) ==
    /\ bookingId \in DOMAIN listed
    /\ listed[bookingId] = "BOOKED"
    /\ LET b == getBookingById(bookingId)
       IN  /\ IF cancelAllowed(b)
              THEN /\ bookings' = [bookings EXCEPT ![b].status = "CANCELLED"]
                   /\ listed' = [i \in BookingIds |-> bookings'[i].status]
              ELSE UNCHANGED <<bookings, listed>>
           /\ resp' = Response("cancelOfficerBooking", bookingId, cancelAllowed(b))
    /\ UNCHANGED <<payments, feedbacks, costVars, requestVars, componentVars, listingVars, authVars>>

\* --------------------------------------------------------------- feedback
\* A service that saves without looking for an existing feedback.
FeedbackExists_Unchecked(b) == FALSE

\* FeedbackService.addFeedback: findByBookingId(booking.getId()) not empty
FeedbackExists(b) == feedbacks[b] # <<>>

\* A controller that skips the ownership check.
ownsBooking_Unchecked(customer, b) == TRUE

\* FeedbackController.addFeedback: booking.getCustomer().getId() equals
\* customer.getId()
ownsBooking(customer, b) == bookings[b].customer = customer

\* FeedbackController.addFeedback
AddFeedback(tok, bookingId, rating) ==
    LET customer == getCustomerByEmail(tok.email)
        b == getBookingById(bookingId)
        accepted == /\ customer # "null"
                    /\ b # 0
                    /\ ownsBooking(customer, b)
                    /\ bookings[b].status = "DELIVERED"
                    /\ ~FeedbackExists(b)
    IN  /\ IF accepted
           THEN feedbacks' = [feedbacks EXCEPT
                    ![b] = Append(@, [customer |-> customer, rating |-> rating])]
           ELSE UNCHANGED feedbacks
        /\ resp' = Response("addFeedback", bookingId, accepted)
        /\ UNCHANGED <<bookings, payments, listed, costVars, requestVars, componentVars, listingVars, authVars>>

\* ------------------------------------------------- officer booking form
\* Validators.required, Validators.min(100), Validators.max(50000)
weightValid(w) == w # 0 /\ w >= MinWeight /\ w <= MaxWeight

\* A calculateCost that truncates the total instead of rounding it.
CalculateCost_Truncating ==
    LET weight == form.weight
        deliveryType == IF form.deliveryType = "" THEN "STANDARD" ELSE form.deliveryType
        packingType == IF form.packingPreference = "" THEN "BASIC"
                       ELSE form.packingPreference
        weightCharge == weight * 2
        deliveryCharge == deliveryChargeOf(deliveryType)
        packingCharge == packingChargeOf(packingType)
        subtotal == 100 * baseRate + weightCharge + 100 * deliveryCharge
                        + 100 * packingCharge + 100 * adminFee
        taxAmount == subtotal * 5
    IN  /\ ui' = IF ~weightValid(weight)
                 THEN [parcelWeightInGram |-> weight, weightCharge |-> 0,
                       deliveryCharge |-> 0, packingCharge |-> 0, subtotal |-> 0,
                       taxAmount |-> 0, calculatedCost |-> 0]
                 ELSE [parcelWeightInGram |-> weight, weightCharge |-> weightCharge,
                       deliveryCharge |-> deliveryCharge,
                       packingCharge |-> packingCharge, subtotal |-> subtotal,
                       taxAmount |-> taxAmount,
                       calculatedCost |-> (subtotal * 100 + taxAmount) \div 10000]
        /\ UNCHANGED <<backendVars, requestVars, componentVars, listingVars, authVars, form, quote>>

\* A calculateCost whose weight charge restarts every 10 kg.
calculateCostOf_WeightCycle(f) ==
    LET weightCharge == (f.weight % 10000) * 2
        subtotal == 100 * baseRate + weightCharge + 100 * 30 + 100 * 10 + 100 * adminFee
        taxAmount == subtotal * 5
    IN  IF ~weightValid(f.weight)
        THEN [parcelWeightInGram |-> f.weight, weightCharge |-> 0,
              deliveryCharge |-> 0, packingCharge |-> 0, subtotal |-> 0,
              taxAmount |-> 0, calculatedCost |-> 0]
        ELSE [parcelWeightInGram |-> f.weight, weightCharge |-> weightCharge,
              deliveryCharge |-> 30, packingCharge |-> 10, subtotal |-> subtotal,
              taxAmount |-> taxAmount,
              calculatedCost |-> (subtotal * 100 + taxAmount + 5000) \div 10000]

\* OfficerBookingComponent.calculateCost for the form values f: the cost
\* fields it leaves on the component.  Units: weightCharge and subtotal in
\* paise, deliveryCharge and packingCharge in rupees, taxAmount in 1/100
\* paise, calculatedCost in rupees (Math.round: half rounds up).
calculateCostOf(f) ==
    LET weight == f.weight                   \* value || 0
        deliveryType == IF f.deliveryType = "" THEN "STANDARD" ELSE f.deliveryType
        packingType == IF f.packingPreference = "" THEN "BASIC"
                       ELSE f.packingPreference
        weightCharge == weight * 2           \* parcelWeightInGram * 0.02
        deliveryCharge ==
            CASE deliveryType = "STANDARD" -> 30
              [] deliveryType = "EXPRESS" -> 80
              [] deliveryType = "SAME_DAY" -> 150
              [] OTHER -> 30
        packingCharge ==
            CASE packingType = "BASIC" -> 10
              [] packingType = "PREMIUM" -> 20
              [] OTHER -> 10
        subtotal == 100 * baseRate + weightCharge + 100 * deliveryCharge
                        + 100 * packingCharge + 100 * adminFee
        taxAmount == subtotal * 5            \* subtotal * 0.05
    IN  IF ~weightValid(weight)
        THEN \* early exit: every cost field is reset
             [parcelWeightInGram |-> weight, weightCharge |-> 0,
              deliveryCharge |-> 0, packingCharge |-> 0, subtotal |-> 0,
              taxAmount |-> 0, calculatedCost |-> 0]
        ELSE [parcelWeightInGram |-> weight, weightCharge |-> weightCharge,
              deliveryCharge |-> deliveryCharge,
              packingCharge |-> packingCharge, subtotal |-> subtotal,
              taxAmount |-> taxAmount,
              calculatedCost |-> (subtotal * 100 + taxAmount + 5000) \div 10000]

\* calculateCost run on the current form values.
CalculateCost ==
    /\ ui' = calculateCostOf(form)
    /\ UNCHANGED <<backendVars, requestVars, componentVars, listingVars, authVars, form, quote>>

\* The officer types a weight: the valueChanges subscription of ngOnInit
\* runs calculateCost on the changed form.
SetWeight(w) ==
    /\ form' = [form EXCEPT !.weight = w]
    /\ ui' = calculateCostOf(form')
    /\ UNCHANGED <<backendVars, requestVars, componentVars, listingVars, authVars, quote>>

\* The officer picks a delivery type and a packing preference; the same
\* subscription recalculates.
SetOptions(d, p) ==
    /\ form' = [form EXCEPT !.deliveryType = d, !.packingPreference = p]
    /\ ui' = calculateCostOf(form')
    /\ UNCHANGED <<backendVars, requestVars, componentVars, listingVars, authVars, quote>>

\* The request body the booking form submits for the current form values.
requestOfForm == MkRequest(form.weight, form.deliveryType, form.packingPreference)

\* The form can be submitted: weight valid, both selects set.
formValid ==
    /\ weightValid(form.weight)
    /\ form.deliveryType # ""
    /\ form.packingPreference # ""

\* The service cost BookingController.createBooking computes for the request.
QuoteCustomerBooking ==
    /\ formValid
    /\ quote' = [quote EXCEPT !.customer = createBooking_serviceCost(requestOfForm)]
    /\ UNCHANGED <<backendVars, requestVars, componentVars, listingVars, authVars, form, ui>>

\* The service cost BookingController.createOfficerBooking computes for it.
QuoteOfficerBooking ==
    /\ formValid
    /\ quote' = [quote EXCEPT !.officer = createOfficerBooking_serviceCost(requestOfForm)]
    /\ UNCHANGED <<backendVars, requestVars, componentVars, listingVars, authVars, form, ui>>

\* ---------------------------------------------------- paginated listings
\* Strings are sequences of characters.  LOWER() of the filter queries.
lowerChar(c) ==
    CASE c = "A" -> "a"
      [] c = "B" -> "b"
      [] c = "C" -> "c"
      [] c = "K" -> "k"
      [] OTHER -> c

LOWER(s) == [i \in 1..Len(s) |-> lowerChar(s[i])]

\* s LIKE CONCAT('%', t, '%'): t occurs in s, an underscore in t standing
\* for any one character.
like(s, t) ==
    \E i \in 0..(Len(s) - Len(t)) :
        \A j \in 1..Len(t) : t[j] = "_" \/ t[j] = s[i + j]

\* String.trim()
RECURSIVE trimLeft(_)
trimLeft(s) == IF s # <<>> /\ Head(s) = " " THEN trimLeft(Tail(s)) ELSE s

RECURSIVE trimRight(_)
trimRight(s) ==
    IF s # <<>> /\ s[Len(s)] = " " THEN trimRight(SubSeq(s, 1, Len(s) - 1)) ELSE s

trim(s) == trimRight(trimLeft(s))

\* The rows each filter query of FeedbackRepository selects.
findByCustomerNameContainingIgnoreCase(customerName) ==
    {i \in 1..Len(feedbackTable) :
        like(LOWER(feedbackTable[i].customerName), LOWER(customerName))}

findByBookingIdContainingIgnoreCase(bookingId) ==
    {i \in 1..Len(feedbackTable) :
        like(LOWER(feedbackTable[i].bookingId), LOWER(bookingId))}

findByFeedbackDescriptionContainingIgnoreCase(description) ==
    {i \in 1..Len(feedbackTable) :
        like(LOWER(feedbackTable[i].feedbackDescription), LOWER(description))}

\* The orders in which a query without ORDER BY can return the rows S.
anyOrder(S) ==
    {o \in [1..Cardinality(S) -> S] :
        \A i, j \in 1..Cardinality(S) : i # j => o[i] # o[j]}

\* ORDER BY created_at DESC over rows numbered in creation order.
createdAtDesc(n) == [i \in 1..n |-> n + 1 - i]

\* A PageRequest.of that replaces an invalid page or size by 0 and 10.
pageRequestOf_Clamping(page, size) ==
    [valid |-> TRUE,
     page |-> IF page < 0 THEN 0 ELSE page,
     size |-> IF size < 1 THEN 10 ELSE size]

\* PageRequest.of(page, size): IllegalArgumentException for a negative page
\* index or a size below one.
pageRequestOf(page, size) ==
    [valid |-> page >= 0 /\ size >= 1, page |-> page, size |-> size]

\* A page slice that counts pages from one.
pageOf_OneBased(ordered, pageable) ==
    LET total == Len(ordered)
        offset == (pageable.page + 1) * pageable.size
        last == IF offset + pageable.size < total THEN offset + pageable.size ELSE total
    IN  [content |-> SubSeq(ordered, offset + 1, last),
         totalElements |-> total,
         totalPages |-> (total + pageable.size - 1) \div pageable.size,
         number |-> pageable.page,
         size |-> pageable.size]

\* The Page a repository query returns for the ordered result and pageable:
\* LIMIT size OFFSET page*size, and the count of the whole result.
pageOf(ordered, pageable) ==
    LET total == Len(ordered)
        offset == pageable.page * pageable.size
        last == IF offset + pageable.size < total THEN offset + pageable.size ELSE total
    IN  [content |-> SubSeq(ordered, offset + 1, last),
         totalElements |-> total,
         totalPages |-> (total + pageable.size - 1) \div pageable.size,
         number |-> pageable.page,
         size |-> pageable.size]

\* Page.hasContent() of the page of S for pageable, whatever the order.
hasContent(S, pageable) == pageable.page * pageable.size < Cardinality(S)

\* @RequestParam(defaultValue = ...): the default stands in for a parameter
\* the request does not carry.
paramOr(param, default) == IF param.present THEN param.value ELSE default

\* The listing response: the request it answers, the HTTP status, the body.
PageResponse(op, pageParam, sizeParam, filterParam, status, body) ==
    [op |-> op, pageParam |-> pageParam, sizeParam |-> sizeParam,
     filterParam |-> filterParam, status |-> status, body |-> body]

NoBody ==
    [content |-> <<>>, totalElements |-> -1, totalPages |-> -1, number |-> -1,
     size |-> -1]

Absent == [present |-> FALSE, value |-> 0]
Given(v) == [present |-> TRUE, value |-> v]
NoFilter == [present |-> FALSE, value |-> <<>>]

\* BookingService.getAllBookingsPaginated: the ids of the page, newest first.
getAllBookingsPaginated(pageable) ==
    pageOf(createdAtDesc(Len(bookings)), pageable)

\* BookingController.getOfficerBookings: GET /api/bookings/officer
GetOfficerBookings(pageParam, sizeParam) ==
    LET page == paramOr(pageParam, 0)
        size == paramOr(sizeParam, 10)
        pageable == pageRequestOf(page, size)
    IN  /\ pageResp' =
              IF pageable.valid
              THEN PageResponse("getOfficerBookings", pageParam, sizeParam, NoFilter,
                                200, getAllBookingsPaginated(pageable))
              ELSE \* the exception of PageRequest.of is caught: bad request
                   PageResponse("getOfficerBookings", pageParam, sizeParam, NoFilter,
                                400, NoBody)
        /\ UNCHANGED <<backendVars, requestVars, componentVars, costVars, feedbackTable, authVars>>

\* FeedbackService.getOfficerFeedbackPaginated: the pages it can return, one
\* for every order the unordered query can produce.  Content is row numbers.
getOfficerFeedbackPaginated(pageable, filterParam) ==
    LET all == 1..Len(feedbackTable)
        pagesOf(S, p) == {pageOf(o, p) : o \in anyOrder(S)}
    IN  IF filterParam.present /\ trim(filterParam.value) # <<>>
        THEN LET trimmedFilter == trim(filterParam.value)
                 customerResults == findByCustomerNameContainingIgnoreCase(trimmedFilter)
                 bookingResults == findByBookingIdContainingIgnoreCase(trimmedFilter)
                 descriptionResults ==
                     findByFeedbackDescriptionContainingIgnoreCase(trimmedFilter)
             IN  IF hasContent(customerResults, pageable)
                 THEN pagesOf(customerResults, pageable)
                 ELSE IF hasContent(bookingResults, pageable)
                 THEN pagesOf(bookingResults, pageable)
                 ELSE IF hasContent(descriptionResults, pageable)
                 THEN pagesOf(descriptionResults, pageable)
                 ELSE \* findAll(PageRequest.of(0, pageable.getPageSize()))
                      pagesOf(all, [pageable EXCEPT !.page = 0])
        ELSE pagesOf(all, pageable)

\* FeedbackController.getOfficerFeedbacks: GET /api/feedback/officer/feedbacks
GetOfficerFeedbacks(pageParam, sizeParam, filterParam) ==
    LET page == paramOr(pageParam, 0)
        size == paramOr(sizeParam, 10)
        pageable == pageRequestOf(page, size)
    IN  /\ IF pageable.valid
           THEN \E feedbackPage \in getOfficerFeedbackPaginated(pageable, filterParam) :
                    pageResp' = PageResponse("getOfficerFeedbacks", pageParam,
                                             sizeParam, filterParam, 200, feedbackPage)
           ELSE \* the exception of PageRequest.of is caught: status 500
                pageResp' = PageResponse("getOfficerFeedbacks", pageParam, sizeParam,
                                         filterParam, 500, NoBody)
        /\ UNCHANGED <<backendVars, requestVars, componentVars, costVars, feedbackTable, authVars>>

\* ----------------------------------------------------------- authentication
\* String.substring(beginIndex), beginIndex counted from 0.
substring(s, beginIndex) == SubSeq(s, beginIndex + 1, Len(s))

\* The uniqueId register builds: prefix + timestamp + randomSuffix.
uniqueIdOf(role, millis, random) ==
    LET prefix == IF role = "CUSTOMER" THEN <<"C", "U", "S", "T">> ELSE <<"O", "F", "F">>
        timestamp == substring(millis, 8)
        randomSuffix == valueOf(random)
    IN  prefix \o timestamp \o randomSuffix

\* passwordUtil.encode and passwordUtil.matches
encode(rawPassword) == [hash |-> rawPassword]
matches(rawPassword, encodedPassword) == encodedPassword = encode(rawPassword)

\* customerRepository.findByEmail / findByUniqueId: the rows selected.
findByEmail(table, email) == {i \in 1..Len(table) : table[i].email = email}

findByUniqueId_OrEmail(table, uniqueId) ==
    {i \in 1..Len(table) : table[i].uniqueId = uniqueId \/ table[i].email = uniqueId}

findByUniqueId(table, uniqueId) == {i \in 1..Len(table) : table[i].uniqueId = uniqueId}

\* jwtUtil.generateToken(email, id, role); NoToken is the null token.
generateToken(email, role) == [email |-> email, role |-> role]
NoToken == [email |-> <<>>, role |-> "null"]

\* new AuthResponse(success, message, token, id, ...): id 0 and uniqueId <<>>
\* stand for the null user fields.
AuthResponse(op, request, success, message, token, id, uniqueId) ==
    [op |-> op, request |-> request, success |-> success, message |-> message,
     token |-> token, id |-> id, uniqueId |-> uniqueId]

AuthFailure(op, request, message) ==
    AuthResponse(op, request, FALSE, message, NoToken, 0, <<>>)

\* A register that skips the findByEmail check.
emailRegistered_Unchecked(table, email) == FALSE

emailRegistered(table, email) == findByEmail(table, email) # {}

\* The clock reading of the latest registration, 0 before the first.
lastRegisteredAt == IF customers = <<>> THEN 0 ELSE customers[Len(customers)].registeredAt

\* AuthService.register at clock reading Times[at], later than the reading
\* of the registration before, with Math.random() giving random.  A uniqueId that is already taken is saved like any other, or
\* save throws when the column carries a unique constraint.
Register(email, password, role, at, random, constraintRejects) ==
    LET request == [email |-> email, password |-> password]
        uniqueId == uniqueIdOf(role, Times[at], random)
    IN  /\ at > lastRegisteredAt   \* the clock has moved on since
        /\ IF emailRegistered(customers, email)
           THEN /\ auth' = AuthFailure("register", request, "Email already registered")
                /\ UNCHANGED customers
           ELSE IF role \notin {"CUSTOMER", "OFFICER"}
           THEN \* UserRole.valueOf throws, the catch block answers
                /\ auth' = AuthFailure("register", request, "Registration failed")
                /\ UNCHANGED customers
           ELSE IF constraintRejects /\ findByUniqueId(customers, uniqueId) # {}
           THEN /\ auth' = AuthFailure("register", request, "Registration failed")
                /\ UNCHANGED customers
           ELSE /\ customers' = Append(customers,
                                       [email |-> email, password |-> encode(password),
                                        role |-> role, uniqueId |-> uniqueId,
                                        registeredAt |-> at])
                /\ auth' = AuthResponse("register", request, TRUE,
                                        "Registration successful",
                                        generateToken(email, role),
                                        Len(customers) + 1, uniqueId)
        /\ UNCHANGED <<backendVars, requestVars, componentVars, costVars, listingVars>>

\* The answer of login (requiredRole CUSTOMER) and officerLogin (requiredRole
\* OFFICER) over the customer table.  request.email carries the unique id.
loginOf(op, requiredRole, table, request) ==
    LET customerOpt == findByUniqueId(table, request.email)
        customer == table[CHOOSE i \in customerOpt : TRUE]
        invalid == IF requiredRole = "CUSTOMER" THEN "Invalid Customer ID or password"
                   ELSE "Invalid Officer ID or password"
        denied == IF requiredRole = "CUSTOMER"
                  THEN "Access denied. Customer login required. Please use officer login for officer accounts."
                  ELSE "Access denied. Officer privileges required"
    IN  IF customerOpt = {}
        THEN AuthFailure(op, request, invalid)
        ELSE IF Cardinality(customerOpt) > 1
        THEN \* Optional<Customer> query with two rows: the exception leaves
             \* the controller, the answer is a server error
             AuthFailure(op, request, "Internal Server Error")
        ELSE IF customer.role # requiredRole
        THEN AuthFailure(op, request, denied)
        ELSE IF ~matches(request.password, customer.password)
        THEN AuthFailure(op, request, invalid)
        ELSE AuthResponse(op, request, TRUE, "Login successful",
                          generateToken(customer.email, customer.role),
                          CHOOSE i \in customerOpt : TRUE, customer.uniqueId)

\* AuthService.login
Login(id, password) ==
    /\ auth' = loginOf("login", "CUSTOMER", customers, [email |-> id, password |-> password])
    /\ UNCHANGED <<backendVars, requestVars, componentVars, costVars, listingVars, customers>>

\* AuthService.officerLogin
OfficerLogin(id, password) ==
    /\ auth' = loginOf("officerLogin", "OFFICER", customers,
                       [email |-> id, password |-> password])
    /\ UNCHANGED <<backendVars, requestVars, componentVars, costVars, listingVars, customers>>

\* --------------------------------------------------------- change password
\* A confirmation test that accepts every request.
confirmationMatches_Unchecked(request) == TRUE

\* request.getNewPassword().equals(request.getConfirmPassword()), with the
\* controller's null test: a missing new password never matches.
confirmationMatches(request) ==
    request.newPassword # "null" /\ request.newPassword = request.confirmPassword

\* AuthController.changePassword and AuthService.changePassword for the user
\* id of the token; tokenValid is false when the id cannot be read from the
\* Authorization header, saveFails when customerRepository.save throws.
ChangePassword(userId, request, tokenValid, saveFails) ==
    LET req == [userId |-> userId, currentPassword |-> request.currentPassword,
                newPassword |-> request.newPassword,
                confirmPassword |-> request.confirmPassword]
        fail(message) ==
            /\ auth' = AuthFailure("changePassword", req, message)
            /\ UNCHANGED customers
    IN  /\ IF ~tokenValid
           THEN fail("Internal server error")
           ELSE IF ~confirmationMatches(request)
           THEN fail("New password and confirm password do not match")
           ELSE IF userId \notin 1..Len(customers)
           THEN \* findById(...).orElseThrow, caught
                fail("Failed to update password")
           ELSE IF request.currentPassword = "null"
           THEN \* passwordUtil.matches rejects a null password, caught
                fail("Failed to update password")
           ELSE IF ~matches(request.currentPassword, customers[userId].password)
           THEN fail("Current password is incorrect")
           ELSE IF ~confirmationMatches(request)
           THEN fail("New password and confirm password do not match")
           ELSE IF saveFails
           THEN fail("Failed to update password")
           ELSE /\ customers' = [customers EXCEPT
                                    ![userId].password = encode(request.newPassword)]
                /\ auth' = AuthResponse("changePassword", req, TRUE,
                                        "Password updated successfully", NoToken, 0, <<>>)
        /\ UNCHANGED <<backendVars, requestVars, componentVars, costVars, listingVars>>

\* ------------------------------------------------------ interleaved requests
\* A request that has read booking b as `row` and has not yet written.
Request(op, b, row, target) ==
    [op |-> op, pc |-> "read", b |-> b, row |-> row, target |-> target,
     success |-> FALSE]

\* The request has answered.
Done(r, ok) == [r EXCEPT !.pc = "done", !.success = ok]

\* BOOKED -> IN_TRANSIT -> DELIVERED, judged on the status the request read.
transitionAllowed(status, target) ==
    \/ status = "BOOKED" /\ target = "IN_TRANSIT"
    \/ status = "IN_TRANSIT" /\ target = "DELIVERED"

\* PaymentController.processPayment up to bookingService.getBookingById
BeginPayment(bookingId) ==
    LET b == getBookingById(bookingId)
    IN  /\ Len(inflight) < MaxInflight
        /\ IF b = 0
           THEN /\ resp' = Response("processPayment", bookingId, FALSE)
                /\ UNCHANGED inflight
           ELSE /\ inflight' = Append(inflight,
                                      Request("processPayment", b, bookings[b], "BOOKED"))
                /\ UNCHANGED resp
        /\ UNCHANGED <<bookings, payments, feedbacks, listed, costVars,
                       componentVars, listingVars, authVars>>

\* A save that is refused when the row changed after the request read it.
saveRead_Versioned(r, row, saveFails) ==
    IF bookings[r.b] # r.row THEN bookings ELSE updateBooking(r.b, row, saveFails)

\* The entity the request read is saved whole, whatever the row holds now.
saveRead(r, row, saveFails) == updateBooking(r.b, row, saveFails)

\* PaymentController.processPayment from paymentService.processPayment on:
\* the entity read earlier gets status BOOKED and is saved.
CompletePayment(k, saveFails) ==
    LET r == inflight[k]
    IN  /\ r.op = "processPayment" /\ r.pc = "read"
        /\ IF PaymentExists(r.b)
           THEN /\ inflight' = [inflight EXCEPT ![k] = Done(r, FALSE)]
                /\ resp' = Response("processPayment", r.b, FALSE)
                /\ UNCHANGED <<bookings, payments>>
           ELSE /\ payments' = [payments EXCEPT
                       ![r.b] = Append(@, [amount |-> r.row.cost])]
                /\ bookings' = saveRead(r, [r.row EXCEPT !.status = "BOOKED"], saveFails)
                /\ inflight' = [inflight EXCEPT ![k] = Done(r, TRUE)]
                /\ resp' = Response("processPayment", r.b, TRUE)
        /\ UNCHANGED <<feedbacks, listed, costVars, componentVars, listingVars, authVars>>

\* The delivery-status update up to its read of the booking.
BeginStatusUpdate(bookingId, target) ==
    LET b == getBookingById(bookingId)
    IN  /\ Len(inflight) < MaxInflight
        /\ IF b = 0
           THEN /\ resp' = Response("updateDeliveryStatus", bookingId, FALSE)
                /\ UNCHANGED inflight
           ELSE /\ inflight' = Append(inflight,
                                      Request("updateDeliveryStatus", b, bookings[b], target))
                /\ UNCHANGED resp
        /\ UNCHANGED <<bookings, payments, feedbacks, listed, costVars,
                       componentVars, listingVars, authVars>>

\* The delivery-status update from its test of the status it read on.
CompleteStatusUpdate(k) ==
    LET r == inflight[k]
        allowed == transitionAllowed(r.row.status, r.target)
    IN  /\ r.op = "updateDeliveryStatus" /\ r.pc = "read"
        /\ IF allowed
           THEN bookings' = saveRead(r, [r.row EXCEPT !.status = r.target], FALSE)
           ELSE UNCHANGED bookings
        /\ inflight' = [inflight EXCEPT ![k] = Done(r, allowed)]
        /\ resp' = Response("updateDeliveryStatus", r.b, allowed)
        /\ UNCHANGED <<payments, feedbacks, listed, costVars, componentVars,
                       listingVars, authVars>>

\* The cancellation up to its read of the booking.
BeginCancel(bookingId) ==
    LET b == getBookingById(bookingId)
    IN  /\ Len(inflight) < MaxInflight
        /\ IF b = 0
           THEN /\ resp' = Response("cancelBooking", bookingId, FALSE)
                /\ UNCHANGED inflight
           ELSE /\ inflight' = Append(inflight,
                                      Request("cancelBooking", b, bookings[b], "CANCELLED"))
                /\ UNCHANGED resp
        /\ UNCHANGED <<bookings, payments, feedbacks, listed, costVars,
                       componentVars, listingVars, authVars>>

\* The cancellation from its test of the status it read on.
CompleteCancel(k) ==
    LET r == inflight[k]
        allowed == r.row.status = "BOOKED"
    IN  /\ r.op = "cancelBooking" /\ r.pc = "read"
        /\ IF allowed
           THEN bookings' = saveRead(r, [r.row EXCEPT !.status = "CANCELLED"], FALSE)
           ELSE UNCHANGED bookings
        /\ inflight' = [inflight EXCEPT ![k] = Done(r, allowed)]
        /\ resp' = Response("cancelBooking", r.b, allowed)
        /\ UNCHANGED <<payments, feedbacks, listed, costVars, componentVars,
                       listingVars, authVars>>

\* An addFeedback request that has passed the controller's tests and the
\* service's existence check and has not yet saved.
FeedbackRequest(b, row, customer, rating) ==
    [op |-> "addFeedback", pc |-> "read", b |-> b, row |-> row, target |-> "",
     success |-> FALSE, customer |-> customer, rating |-> rating]

\* FeedbackController.addFeedback up to and including
\* feedbackRepository.findByBookingId in FeedbackService.addFeedback
BeginAddFeedback(tok, bookingId, rating) ==
    LET customer == getCustomerByEmail(tok.email)
        b == getBookingById(bookingId)
        accepted == /\ customer # "null"
                    /\ b # 0
                    /\ ownsBooking(customer, b)
                    /\ bookings[b].status = "DELIVERED"
                    /\ ~FeedbackExists(b)
    IN  /\ Len(inflight) < MaxInflight
        /\ IF accepted
           THEN /\ inflight' = Append(inflight,
                                      FeedbackRequest(b, bookings[b], customer, rating))
                /\ UNCHANGED resp
           ELSE /\ resp' = Response("addFeedback", bookingId, FALSE)
                /\ UNCHANGED inflight
        /\ UNCHANGED <<bookings, payments, feedbacks, listed, costVars,
                       componentVars, listingVars, authVars>>

\* FeedbackService.addFeedback from new Feedback() to feedbackRepository.save.
\* The Feedback table's constraints are not known: where it has a unique
\* constraint on the booking, the second save throws and the controller
\* answers with a failure.
CompleteAddFeedback(k, constraintRejects) ==
    LET r == inflight[k]
    IN  /\ r.op = "addFeedback" /\ r.pc = "read"
        /\ IF constraintRejects /\ FeedbackExists(r.b)
           THEN /\ inflight' = [inflight EXCEPT ![k] = Done(r, FALSE)]
                /\ resp' = Response("addFeedback", r.b, FALSE)
                /\ UNCHANGED feedbacks
           ELSE /\ feedbacks' = [feedbacks EXCEPT
                       ![r.b] = Append(@, [customer |-> r.customer, rating |-> r.rating])]
                /\ inflight' = [inflight EXCEPT ![k] = Done(r, TRUE)]
                /\ resp' = Response("addFeedback", r.b, TRUE)
        /\ UNCHANGED <<bookings, payments, listed, costVars, componentVars,
                       listingVars, authVars>>

\* ------------------------------------------------------ officer invoice page
officerFee == 50

isDigit(c) == c \in {digitChar(d) : d \in 0..9}
digitValue(c) == CHOOSE d \in 0..9 : digitChar(d) = c

\* The longest prefix of s made of decimal digits.
RECURSIVE digitsPrefix(_)
digitsPrefix(s) ==
    IF s # <<>> /\ isDigit(s[1]) THEN <<s[1]>> \o digitsPrefix(Tail(s)) ELSE <<>>

RECURSIVE numberOf(_)
numberOf(ds) ==
    IF ds = <<>> THEN 0
    ELSE numberOf(SubSeq(ds, 1, Len(ds) - 1)) * 10 + digitValue(ds[Len(ds)])

\* parseFloat: the number the longest numeric prefix denotes, in
\* thousandths (decimals after the third are not represented); NaN when
\* there is no such prefix.
parseFloat(s) ==
    LET int == digitsPrefix(s)
        rest == SubSeq(s, Len(int) + 1, Len(s))
        frac == IF rest # <<>> /\ rest[1] = "." THEN digitsPrefix(Tail(rest)) ELSE <<>>
    IN  IF int = <<>> /\ frac = <<>>
        THEN [isNull |-> FALSE, isNaN |-> TRUE, value |-> 0]
        ELSE [isNull |-> FALSE, isNaN |-> FALSE,
              value |-> numberOf(int) * 1000
                        + numberOf(SubSeq(frac \o <<"0", "0", "0">>, 1, 3))]

\* toFixed that cuts the third decimal off.
toFixed2_Truncating(x) == x \div 10

\* +x.toFixed(2) for a non-negative amount in thousandths, in hundredths.
\* (On an exact half the result of toFixed depends on the binary
\* representation of x; AmountParams has no such amount.)
toFixed2(x) == (x + 5) \div 10

\* OfficerInvoiceComponent.computeTotals: the new totalAmount
computeTotals(inv) ==
    LET base == IF inv.invoiceData.present THEN inv.invoiceData.serviceCost ELSE 0
        computed == base + officerFee * 1000
    IN  IF ~inv.paidAmount.isNull /\ ~inv.paidAmount.isNaN
        THEN toFixed2(inv.paidAmount.value)
        ELSE toFixed2(computed)

\* OfficerInvoiceComponent.createDemoInvoiceData: the new invoiceData, with
\* serviceCost: parseFloat(params['amount']) || 1250
createDemoInvoiceData(inv) ==
    LET p == parseFloat(inv.amount)
    IN  [present |-> TRUE, demo |-> TRUE,
         serviceCost |-> IF p.isNaN \/ p.value = 0 THEN 1250 * 1000 ELSE p.value]

\* The invoice the backend generates for a booking carries its service cost.
invoiceDataOf(b) ==
    [present |-> TRUE, demo |-> FALSE, serviceCost |-> bookings[b].cost * 1000]

\* The outstanding calls with one for bookingId added. Answers arrive in
\* any order, so the calls are kept in the order of their ids.
withRequest(requests, bookingId) ==
    SelectSeq(requests, LAMBDA id : id <= bookingId) \o <<bookingId>>
        \o SelectSeq(requests, LAMBDA id : id > bookingId)

\* ngOnInit's queryParams subscription followed by loadInvoiceData;
\* bookingId 0 stands for a URL without bookingId.
QueryParams(bookingId, amountParam) ==
    /\ Len(invoice.requests) < MaxRequests
    /\ LET paid == IF amountParam # <<>> THEN parseFloat(amountParam) ELSE NoAmount
       IN  invoice' =
               IF bookingId # 0
               THEN [invoice EXCEPT !.amount = amountParam, !.paidAmount = paid,
                                    !.isLoading = TRUE, !.errorMessage = "",
                                    !.requests = withRequest(@, bookingId)]
               ELSE [invoice EXCEPT !.amount = amountParam, !.paidAmount = paid,
                                    !.errorMessage = "No booking ID found"]
    /\ UNCHANGED <<backendVars, costVars, requestVars, officerFeedback,
                   listingVars, authVars>>

withoutRequest(inv, k) ==
    [inv EXCEPT !.requests = SubSeq(@, 1, k - 1) \o SubSeq(@, k + 1, Len(@))]

\* loadInvoiceData's next callback followed by its complete callback: the
\* k-th outstanding generateInvoice call is answered with a response.
GenerateInvoiceNext(k, success) ==
    /\ k \in 1..Len(invoice.requests)
    /\ LET b == getBookingById(invoice.requests[k])
           inv == withoutRequest(invoice, k)
       IN  IF success
           THEN /\ b # 0
                /\ invoice.detailRequests < MaxRequests
                /\ LET loaded == [inv EXCEPT !.invoiceData = invoiceDataOf(b),
                                             !.detailRequests = @ + 1]
                   IN  invoice' = [loaded EXCEPT !.totalAmount = computeTotals(loaded),
                                                 !.isLoading = FALSE]
           ELSE invoice' = [inv EXCEPT !.invoiceData = createDemoInvoiceData(invoice),
                                       !.isLoading = FALSE]
    /\ UNCHANGED <<backendVars, costVars, requestVars, officerFeedback,
                   listingVars, authVars>>

\* loadInvoiceData's error callback: the k-th outstanding call fails; an
\* Observable that errors does not run the complete callback.
GenerateInvoiceError(k) ==
    /\ k \in 1..Len(invoice.requests)
    /\ invoice' = [withoutRequest(invoice, k) EXCEPT
                       !.invoiceData = createDemoInvoiceData(invoice)]
    /\ UNCHANGED <<backendVars, costVars, requestVars, officerFeedback,
                   listingVars, authVars>>

\* populateExtraDetails' getBookingById callbacks (next and error): the
\* totals are computed again.
BookingDetails ==
    /\ invoice.detailRequests > 0
    /\ invoice' = [invoice EXCEPT !.totalAmount = computeTotals(invoice),
                                  !.detailRequests = @ - 1]
    /\ UNCHANGED <<backendVars, costVars, requestVars, officerFeedback,
                   listingVars, authVars>>

\* ----------------------------------------------------- officer feedback page
\* FeedbackService.getOfficerFeedbacks: the filter is sent trimmed, and not
\* sent when it is empty or blank.
filterParamOf(filter) ==
    IF trim(filter) # <<>> THEN [present |-> TRUE, value |-> trim(filter)] ELSE NoFilter

\* The pages the backend can answer a getOfficerFeedbacks call with.
responsesOf(call) ==
    getOfficerFeedbackPaginated(pageRequestOf(call.page, call.size),
                                filterParamOf(call.filter))

\* OfficerFeedbackComponent.loadFeedbacks: the component after the call
loadFeedbacks(c) ==
    [c EXCEPT !.isLoading = TRUE,
              !.requests = Append(@, [page |-> c.currentPage, size |-> c.pageSize,
                                      filter |-> c.searchFilter, state |-> "pending"])]

\* The search box is bound to searchFilter.
SetSearchFilter(filter) ==
    /\ officerFeedback' = [officerFeedback EXCEPT !.searchFilter = filter]
    /\ UNCHANGED <<backendVars, costVars, requestVars, invoice, listingVars, authVars>>

\* OfficerFeedbackComponent.applyFilter
ApplyFilter ==
    /\ Len(officerFeedback.requests) < MaxRequests
    /\ officerFeedback' =
           IF trim(officerFeedback.searchFilter) # <<>>
           THEN loadFeedbacks([officerFeedback EXCEPT !.currentPage = 0])
           ELSE officerFeedback
    /\ UNCHANGED <<backendVars, costVars, requestVars, invoice, listingVars, authVars>>

\* OfficerFeedbackComponent.onPageChange; the paginator offers the pages
\* that totalElements and the page size give.
OnPageChange(pageIndex, pageSize) ==
    /\ Len(officerFeedback.requests) < MaxRequests
    /\ pageIndex = 0 \/ pageIndex * pageSize < officerFeedback.totalElements
    /\ officerFeedback' = loadFeedbacks([officerFeedback EXCEPT
                                            !.currentPage = pageIndex,
                                            !.pageSize = pageSize])
    /\ UNCHANGED <<backendVars, costVars, requestVars, invoice, listingVars, authVars>>

\* loadFeedbacks' next callback: the k-th call issued is answered.
LoadFeedbacksNext(k) ==
    /\ k \in 1..Len(officerFeedback.requests)
    /\ officerFeedback.requests[k].state = "pending"
    /\ \E response \in responsesOf(officerFeedback.requests[k]) :
          officerFeedback' = [officerFeedback EXCEPT
                                 !.feedbacks = response.content,
                                 !.totalElements = response.totalElements,
                                 !.currentPage = response.number,
                                 !.isLoading = FALSE,
                                 !.requests[k].state = "done"]
    /\ UNCHANGED <<backendVars, costVars, requestVars, invoice, listingVars, authVars>>

\* loadFeedbacks' error callback: loadFeedbacksFallback calls
\* getAllFeedbackSimple.
LoadFeedbacksError(k) ==
    /\ k \in 1..Len(officerFeedback.requests)
    /\ officerFeedback.requests[k].state = "pending"
    /\ officerFeedback' = [officerFeedback EXCEPT !.requests[k].state = "fallback"]
    /\ UNCHANGED <<backendVars, costVars, requestVars, invoice, listingVars, authVars>>

\* loadFeedbacksFallback's next callback: all rows, in the order findAll
\* returned them.
FallbackNext(k) ==
    /\ k \in 1..Len(officerFeedback.requests)
    /\ officerFeedback.requests[k].state = "fallback"
    /\ \E all \in anyOrder(1..Len(feedbackTable)) :
          officerFeedback' = [officerFeedback EXCEPT
                                 !.feedbacks = all,
                                 !.totalElements = Len(all),
                                 !.currentPage = 0,
                                 !.isLoading = FALSE,
                                 !.requests[k].state = "fallbackDone"]
    /\ UNCHANGED <<backendVars, costVars, requestVars, invoice, listingVars, authVars>>

\* loadFeedbacksFallback's error callback
FallbackError(k) ==
    /\ k \in 1..Len(officerFeedback.requests)
    /\ officerFeedback.requests[k].state = "fallback"
    /\ officerFeedback' = [officerFeedback EXCEPT !.isLoading = FALSE,
                                                  !.requests[k].state = "failed"]
    /\ UNCHANGED <<backendVars, costVars, requestVars, invoice, listingVars, authVars>>

\* ------------------------------------------------------------ specification
Init ==
    /\ bookings = <<>>
    /\ payments = [b \in 1..MaxBookings |-> <<>>]
    /\ feedbacks = [b \in 1..MaxBookings |-> <<>>]
    /\ listed = <<>>
    /\ resp = Response("none", 0, FALSE)
    /\ form = [weight |-> 0, deliveryType |-> "STANDARD", packingPreference |-> "BASIC"]
    /\ ui = [parcelWeightInGram |-> 0, weightCharge |-> 0, deliveryCharge |-> 0,
             packingCharge |-> 0, subtotal |-> 0, taxAmount |-> 0,
             calculatedCost |-> 0]
    /\ quote = [customer |-> -1, officer |-> -1]
    /\ feedbackTable = <<>>
    /\ pageResp = NoPage
    /\ customers = <<>>
    /\ auth = NoAuth
    /\ inflight = <<>>
    /\ invoice = OfficerInvoiceComponent
    /\ officerFeedback = OfficerFeedbackComponent

Next ==
    \/ \E tok \in Tokens, req \in LifecycleRequests : CreateBooking(tok, req)
    \/ \E tok \in Tokens, req \in LifecycleRequests : CreateOfficerBooking(tok, req)
    \/ \E id \in 1..MaxBookings, saveFails \in BOOLEAN : ProcessPayment(id, saveFails)
    \/ \E id \in 1..MaxBookings, target \in DeliveryTargets : UpdateDeliveryStatus(id, target)
    \/ \E id \in 1..MaxBookings : CancelBooking(id)
    \/ \E tok \in Tokens, id \in 1..MaxBookings, rating \in Ratings :
           AddFeedback(tok, id, rating)

Spec == Init /\ [][Next]_vars

\* The officer's all-bookings page beside the requests that change a status.
UiNext ==
    \/ \E tok \in Tokens, req \in LifecycleRequests : CreateBooking(tok, req)
    \/ \E tok \in Tokens, req \in LifecycleRequests : CreateOfficerBooking(tok, req)
    \/ \E id \in 1..MaxBookings, target \in DeliveryTargets : UpdateDeliveryStatus(id, target)
    \/ \E id \in 1..MaxBookings : CancelBooking(id)
    \/ LoadBookings
    \/ \E id \in 1..MaxBookings : AllBookings_cancelBooking(id)

UiSpec == Init /\ [][UiNext]_vars

\* Booking creation alone, over a wider set of requests.
CreateNext ==
    \/ \E tok \in Tokens, req \in CreateRequests : CreateBooking(tok, req)
    \/ \E tok \in Tokens, req \in CreateRequests : CreateOfficerBooking(tok, req)

CreateSpec == Init /\ [][CreateNext]_vars

\* The cost calculation for every sampled form value.
CostInit ==
    /\ bookings = <<>>
    /\ payments = [b \in 1..MaxBookings |-> <<>>]
    /\ feedbacks = [b \in 1..MaxBookings |-> <<>>]
    /\ listed = <<>>
    /\ resp = Response("none", 0, FALSE)
    /\ form \in [weight : FormWeights, deliveryType : FormDeliveryTypes,
                 packingPreference : FormPackingPreferences]
    /\ ui = [parcelWeightInGram |-> 0, weightCharge |-> 0, deliveryCharge |-> 0,
             packingCharge |-> 0, subtotal |-> 0, taxAmount |-> 0,
             calculatedCost |-> 0]
    /\ quote = [customer |-> -1, officer |-> -1]
    /\ feedbackTable = <<>>
    /\ pageResp = NoPage
    /\ customers = <<>>
    /\ auth = NoAuth
    /\ inflight = <<>>
    /\ invoice = OfficerInvoiceComponent
    /\ officerFeedback = OfficerFeedbackComponent

CostNext ==
    \/ CalculateCost
    \/ QuoteCustomerBooking
    \/ QuoteOfficerBooking

CostSpec == CostInit /\ [][CostNext]_vars

\* The officer editing the booking form, the cost following every change.
FormNext ==
    \/ \E w \in FormWeights : SetWeight(w)
    \/ \E d \in FormDeliveryTypes, p \in FormPackingPreferences : SetOptions(d, p)

FormSpec == Init /\ [][FormNext]_vars

\* The listing endpoints over a populated booking table or a populated
\* feedback table.
ListInit ==
    /\ \/ /\ \E n \in 0..MaxListed :
                bookings = [i \in 1..n |->
                               [bookingId |-> constructorBookingId(i),
                                customer |-> "c1", weight |-> 2000,
                                deliveryType |-> "STANDARD", packing |-> "BASIC",
                                cost |-> calculateServiceCost(2000, "STANDARD",
                                                              "BASIC", FALSE),
                                status |-> "BOOKED"]]
          /\ feedbackTable = <<>>
       \/ /\ bookings = <<>>
          /\ \E S \in SUBSET {FeedbackRows[i] : i \in 1..Len(FeedbackRows)} :
                feedbackTable = SelectSeq(FeedbackRows, LAMBDA r : r \in S)
    /\ payments = [b \in 1..MaxBookings |-> <<>>]
    /\ feedbacks = [b \in 1..MaxBookings |-> <<>>]
    /\ listed = <<>>
    /\ resp = Response("none", 0, FALSE)
    /\ form = [weight |-> 0, deliveryType |-> "STANDARD", packingPreference |-> "BASIC"]
    /\ ui = [parcelWeightInGram |-> 0, weightCharge |-> 0, deliveryCharge |-> 0,
             packingCharge |-> 0, subtotal |-> 0, taxAmount |-> 0,
             calculatedCost |-> 0]
    /\ quote = [customer |-> -1, officer |-> -1]
    /\ pageResp = NoPage
    /\ customers = <<>>
    /\ auth = NoAuth
    /\ inflight = <<>>
    /\ invoice = OfficerInvoiceComponent
    /\ officerFeedback = OfficerFeedbackComponent

PageParams == {Absent} \cup {Given(v) : v \in PageValues}
SizeParams == {Absent} \cup {Given(v) : v \in SizeValues}
FilterParams == {NoFilter} \cup {Given(v) : v \in FilterValues}

ListNext ==
    \/ \E p \in PageParams, sz \in SizeParams : GetOfficerBookings(p, sz)
    \/ \E p \in PageParams, sz \in SizeParams, f \in FilterParams :
          GetOfficerFeedbacks(p, sz, f)

ListSpec == ListInit /\ [][ListNext]_vars

\* The identifiers a login request can carry: every unique id a registration
\* can produce, and the e-mail addresses.
LoginIds ==
    {uniqueIdOf(r, Times[t], n) : r \in {"CUSTOMER", "OFFICER"}, t \in 1..Len(Times),
                                  n \in Randoms}
        \cup Emails

\* Registration and the two logins.
AuthNext ==
    \/ \E email \in Emails, role \in RoleNames, at \in 1..Len(Times), random \in Randoms,
          constraintRejects \in BOOLEAN :
          Register(email, "p", role, at, random, constraintRejects)
    \/ \E id \in LoginIds, password \in Passwords : Login(id, password)
    \/ \E id \in LoginIds, password \in Passwords : OfficerLogin(id, password)

AuthSpec == Init /\ [][AuthNext]_vars

\* Booking creation with the clock readings of the officer bookings.
BookingIdNext ==
    \/ \E tok \in Tokens, req \in CreateRequests : CreateBooking(tok, req)
    \/ \E tok \in Tokens, req \in CreateRequests, millis \in 1..MaxClock,
          constraintRejects \in BOOLEAN :
          CreateOfficerBookingAt(tok, req, millis, constraintRejects)

BookingIdSpec == Init /\ [][BookingIdNext]_vars

\* Two registered users, a customer and an officer, changing passwords and
\* logging in.
PasswordInit ==
    /\ bookings = <<>>
    /\ payments = [b \in 1..MaxBookings |-> <<>>]
    /\ feedbacks = [b \in 1..MaxBookings |-> <<>>]
    /\ listed = <<>>
    /\ resp = Response("none", 0, FALSE)
    /\ form = [weight |-> 0, deliveryType |-> "STANDARD", packingPreference |-> "BASIC"]
    /\ ui = [parcelWeightInGram |-> 0, weightCharge |-> 0, deliveryCharge |-> 0,
             packingCharge |-> 0, subtotal |-> 0, taxAmount |-> 0,
             calculatedCost |-> 0]
    /\ quote = [customer |-> -1, officer |-> -1]
    /\ feedbackTable = <<>>
    /\ pageResp = NoPage
    /\ customers =
           <<[email |-> <<"e", "1">>, password |-> encode("p"), role |-> "CUSTOMER",
              uniqueId |-> uniqueIdOf("CUSTOMER", Times[1], 7), registeredAt |-> 1],
             [email |-> <<"e", "2">>, password |-> encode("p"), role |-> "OFFICER",
              uniqueId |-> uniqueIdOf("OFFICER", Times[2], 42), registeredAt |-> 2]>>
    /\ auth = NoAuth
    /\ inflight = <<>>
    /\ invoice = OfficerInvoiceComponent
    /\ officerFeedback = OfficerFeedbackComponent

PasswordRequests ==
    [currentPassword : PasswordFields, newPassword : PasswordFields,
     confirmPassword : PasswordFields]

PasswordNext ==
    \/ \E userId \in UserIds, request \in PasswordRequests, tokenValid \in BOOLEAN,
          saveFails \in BOOLEAN :
          ChangePassword(userId, request, tokenValid, saveFails)
    \/ \E i \in 1..Len(customers), password \in Passwords :
          Login(customers[i].uniqueId, password)
    \/ \E i \in 1..Len(customers), password \in Passwords :
          OfficerLogin(customers[i].uniqueId, password)

PasswordSpec == PasswordInit /\ [][PasswordNext]_vars

\* Payment, delivery-status update and cancellation served at the same time.
RaceNext ==
    \/ \E tok \in Tokens, req \in LifecycleRequests : CreateBooking(tok, req)
    \/ \E tok \in Tokens, req \in LifecycleRequests : CreateOfficerBooking(tok, req)
    \/ \E id \in 1..MaxBookings : BeginPayment(id)
    \/ \E k \in 1..Len(inflight), saveFails \in BOOLEAN : CompletePayment(k, saveFails)
    \/ \E id \in 1..MaxBookings, target \in DeliveryTargets : BeginStatusUpdate(id, target)
    \/ \E k \in 1..Len(inflight) : CompleteStatusUpdate(k)
    \/ \E id \in 1..MaxBookings : BeginCancel(id)
    \/ \E k \in 1..Len(inflight) : CompleteCancel(k)

RaceSpec == Init /\ [][RaceNext]_vars

\* addFeedback requests served at the same time, on bookings that went
\* through creation, payment and delivery.
FeedbackRaceNext ==
    \/ \E tok \in Tokens, req \in LifecycleRequests : CreateBooking(tok, req)
    \/ \E id \in 1..MaxBookings, saveFails \in BOOLEAN : ProcessPayment(id, saveFails)
    \/ \E id \in 1..MaxBookings, target \in DeliveryTargets : UpdateDeliveryStatus(id, target)
    \/ \E tok \in Tokens, id \in 1..MaxBookings, rating \in Ratings :
           BeginAddFeedback(tok, id, rating)
    \/ \E k \in 1..Len(inflight), constraintRejects \in BOOLEAN :
           CompleteAddFeedback(k, constraintRejects)

FeedbackRaceSpec == Init /\ [][FeedbackRaceNext]_vars

\* The officer invoice page beside the creation of the bookings it shows.
InvoiceNext ==
    \/ \E tok \in Tokens, req \in LifecycleRequests : CreateOfficerBooking(tok, req)
    \/ \E id \in 0..MaxBookings, amountParam \in AmountParams : QueryParams(id, amountParam)
    \/ \E k \in 1..MaxRequests, success \in BOOLEAN : GenerateInvoiceNext(k, success)
    \/ \E k \in 1..MaxRequests : GenerateInvoiceError(k)
    \/ BookingDetails

InvoiceSpec == Init /\ [][InvoiceNext]_vars

\* The invoice page opened without an amount parameter or with one.
InvoiceLiveNext ==
    \/ \E tok \in Tokens, req \in LifecycleRequests : CreateOfficerBooking(tok, req)
    \/ \E id \in 0..MaxBookings, amountParam \in {<<>>, <<"1", "2", "a", "b", "c">>} :
           QueryParams(id, amountParam)
    \/ \E k \in 1..MaxRequests, success \in BOOLEAN : GenerateInvoiceNext(k, success)
    \/ \E k \in 1..MaxRequests : GenerateInvoiceError(k)
    \/ BookingDetails

\* Every outstanding HTTP call is answered, with a response or an error.
InvoiceFairness ==
    /\ WF_vars(\E k \in 1..MaxRequests :
                  \/ \E success \in BOOLEAN : GenerateInvoiceNext(k, success)
                  \/ GenerateInvoiceError(k))
    /\ WF_vars(BookingDetails)

InvoiceLiveSpec == Init /\ [][InvoiceLiveNext]_vars /\ InvoiceFairness

\* The officer feedback page over a store of three feedback rows.
FeedbackPageInit ==
    /\ bookings = <<>>
    /\ payments = [b \in 1..MaxBookings |-> <<>>]
    /\ feedbacks = [b \in 1..MaxBookings |-> <<>>]
    /\ listed = <<>>
    /\ resp = Response("none", 0, FALSE)
    /\ form = [weight |-> 0, deliveryType |-> "STANDARD", packingPreference |-> "BASIC"]
    /\ ui = [parcelWeightInGram |-> 0, weightCharge |-> 0, deliveryCharge |-> 0,
             packingCharge |-> 0, subtotal |-> 0, taxAmount |-> 0,
             calculatedCost |-> 0]
    /\ quote = [customer |-> -1, officer |-> -1]
    /\ feedbackTable = FeedbackRows
    /\ pageResp = NoPage
    /\ customers = <<>>
    /\ auth = NoAuth
    /\ inflight = <<>>
    /\ invoice = OfficerInvoiceComponent
    /\ officerFeedback = OfficerFeedbackComponent

FeedbackPageNext ==
    \/ \E filter \in SearchFilters : SetSearchFilter(filter)
    \/ ApplyFilter
    \/ \E pageIndex \in 0..1, pageSize \in PageSizeOptions : OnPageChange(pageIndex, pageSize)
    \/ \E k \in 1..MaxRequests : LoadFeedbacksNext(k)
    \/ \E k \in 1..MaxRequests : LoadFeedbacksError(k)
    \/ \E k \in 1..MaxRequests : FallbackNext(k)
    \/ \E k \in 1..MaxRequests : FallbackError(k)

FeedbackPageSpec == FeedbackPageInit /\ [][FeedbackPageNext]_vars

\* ================================================================== claims
statusRank(st) ==
    CASE st = "NEW" -> 0
      [] st = "BOOKED" -> 1
      [] st = "IN_TRANSIT" -> 2
      [] st = "DELIVERED" -> 3
      [] OTHER -> 4

Terminal == {"DELIVERED", "CANCELLED"}

\* C1: a booking whose status is DELIVERED or CANCELLED never changes status
\* again, whatever operation is performed (processPayment on a booking
\* without a Payment included).
C1_TerminalStatusIsFinal ==
    [][\A b \in BookingIds :
          bookings[b].status \in Terminal
              => bookings'[b].status = bookings[b].status]_vars

\* C2: in every step a status either stays, moves forward in
\* NEW < BOOKED < IN_TRANSIT < DELIVERED, or moves to CANCELLED from a
\* non-terminal status; it never moves backward.
C2_StatusNeverMovesBackward ==
    [][\A b \in BookingIds :
          LET old == bookings[b].status
              new == bookings'[b].status
          IN  \/ new = old
              \/ new = "CANCELLED" /\ old \notin Terminal
              \/ /\ old # "CANCELLED"
                 /\ new # "CANCELLED"
                 /\ statusRank(old) < statusRank(new)]_vars

\* C3: for an existing booking the first processPayment succeeds and creates
\* its one Payment; a processPayment for a booking that already has a
\* Payment answers success=false, adds no Payment and leaves every booking
\* row (its status included) as it was just before.
C3_PaymentSucceedsOnce ==
    [][(resp'.op = "processPayment" /\ resp'.booking \in BookingIds)
          => IF PaymentExists(resp'.booking)
             THEN /\ ~resp'.success
                  /\ payments' = payments
                  /\ bookings' = bookings
             ELSE /\ resp'.success
                  /\ Len(payments'[resp'.booking]) = 1]_vars

\* C3 witness: a second processPayment has just been rejected for a booking
\* that was paid once and has moved on to IN_TRANSIT in between.
C3_Witness ==
    /\ resp.op = "processPayment"
    /\ ~resp.success
    /\ resp.booking \in BookingIds
    /\ Len(payments[resp.booking]) = 1
    /\ bookings[resp.booking].status = "IN_TRANSIT"

\* C4: whenever processPayment answers success=true, the booking has a
\* Payment and its persisted status is BOOKED.
C4_SuccessMeansPaidAndBooked ==
    (resp.op = "processPayment" /\ resp.success)
        => /\ PaymentExists(resp.booking)
           /\ bookings[resp.booking].status = "BOOKED"

\* C7: every booking has at most one Feedback; the first valid submission
\* succeeds, and a submission for a booking that already has a Feedback
\* answers success=false and leaves the Feedback table unchanged.
C7_OneFeedbackPerBooking ==
    /\ [](\A b \in 1..MaxBookings : Len(feedbacks[b]) <= 1)
    /\ [][\A tok \in Tokens, id \in BookingIds, rating \in Ratings :
             AddFeedback(tok, id, rating)
                 => IF Len(feedbacks[id]) > 0
                    THEN ~resp'.success /\ feedbacks' = feedbacks
                    ELSE (/\ tok.email = bookings[id].customer
                          /\ bookings[id].status = "DELIVERED")
                            => resp'.success /\ Len(feedbacks'[id]) = 1]_vars

\* C7 witness: a second submission for a booking with a Feedback was refused.
C7_Witness ==
    /\ resp.op = "addFeedback"
    /\ ~resp.success
    /\ resp.booking \in BookingIds
    /\ Len(feedbacks[resp.booking]) = 1
    /\ bookings[resp.booking].status = "DELIVERED"

\* C8: addFeedback persists a Feedback only for the customer linked to the
\* booking and only while the booking is DELIVERED; a request of a non-owner
\* or for any other status answers success=false and persists nothing.
C8_FeedbackOnlyByOwnerWhenDelivered ==
    [][/\ feedbacks' # feedbacks => resp'.op = "addFeedback" /\ resp'.success
       /\ \A tok \in Tokens, id \in BookingIds, rating \in Ratings :
             AddFeedback(tok, id, rating)
                 => IF /\ getCustomerByEmail(tok.email) = bookings[id].customer
                       /\ bookings[id].status = "DELIVERED"
                    THEN resp'.success => feedbacks'[id] # feedbacks[id]
                    ELSE ~resp'.success /\ feedbacks' = feedbacks]_vars

\* C8 witness: a DELIVERED booking carries the Feedback of its own customer,
\* and the last addFeedback, on a booking without Feedback, was refused.
C8_Witness ==
    /\ \E b \in BookingIds :
          /\ bookings[b].status = "DELIVERED"
          /\ Len(feedbacks[b]) = 1
          /\ feedbacks[b][1].customer = bookings[b].customer
    /\ resp.op = "addFeedback"
    /\ ~resp.success
    /\ resp.booking \in BookingIds
    /\ feedbacks[resp.booking] = <<>>

\* C6: a cancellation changes a booking to CANCELLED only when its persisted
\* status is BOOKED at that moment; otherwise it answers failure and every
\* persisted status stays as it was (also for a row the officer's list still
\* shows as BOOKED).
C6_CancelOnlyFromBooked ==
    [][\A b \in BookingIds :
          /\ (bookings'[b].status = "CANCELLED" /\ bookings[b].status # "CANCELLED")
                => bookings[b].status = "BOOKED"
          /\ (/\ resp'.op \in {"cancelBooking", "cancelOfficerBooking"}
              /\ resp'.booking = b
              /\ bookings[b].status # "BOOKED")
                => ~resp'.success /\ bookings' = bookings]_vars

\* C6 witness: the officer's list shows a row as BOOKED, the booking has moved
\* on to IN_TRANSIT, and the cancel request from that row was refused.
C6_Witness ==
    \E b \in BookingIds :
        /\ b \in DOMAIN listed
        /\ listed[b] = "BOOKED"
        /\ bookings[b].status = "IN_TRANSIT"
        /\ resp = Response("cancelOfficerBooking", b, FALSE)

\* C5: a booking created by createBooking is persisted with status NEW and
\* the calculator's cost for the request's weight, delivery type and packing
\* with the officer flag false; one created by createOfficerBooking with
\* status BOOKED and the cost with the flag true.  The cost and status of
\* the request body are not what is persisted.
C5_CreatedWithComputedCostAndStatus ==
    [][\A tok \in Tokens, req \in CreateRequests :
          /\ (CreateBooking(tok, req) /\ resp'.success)
                => /\ Len(bookings') = Len(bookings) + 1
                   /\ bookings'[resp'.booking] =
                        [bookingId |-> bookings'[resp'.booking].bookingId,
                         customer |-> tok.email,
                         weight |-> req.weight,
                         deliveryType |-> req.deliveryType,
                         packing |-> req.packing,
                         cost |-> calculateServiceCost(req.weight, req.deliveryType,
                                                       req.packing, FALSE),
                         status |-> "NEW"]
          /\ (CreateOfficerBooking(tok, req) /\ resp'.success)
                => /\ Len(bookings') = Len(bookings) + 1
                   /\ bookings'[resp'.booking] =
                        [bookingId |-> bookings'[resp'.booking].bookingId,
                         customer |-> tok.email,
                         weight |-> req.weight,
                         deliveryType |-> req.deliveryType,
                         packing |-> req.packing,
                         cost |-> calculateServiceCost(req.weight, req.deliveryType,
                                                       req.packing, TRUE),
                         status |-> "BOOKED"]]_vars

\* C5 witness: the store holds a customer booking (NEW) and an officer
\* booking (BOOKED) for the same parcel, at different costs.
C5_Witness ==
    \E i, j \in BookingIds :
        /\ bookings[i].customer = "c1" /\ bookings[i].status = "NEW"
        /\ bookings[j].customer = "o1" /\ bookings[j].status = "BOOKED"
        /\ bookings[i].weight = 5000 /\ bookings[j].weight = 5000
        /\ bookings[i].deliveryType = bookings[j].deliveryType
        /\ bookings[i].packing = bookings[j].packing
        /\ bookings[i].cost # bookings[j].cost

\* The charges as the specification tabulates them.
tabulatedDelivery(d) == IF d = "EXPRESS" THEN 80 ELSE IF d = "SAME_DAY" THEN 150 ELSE 30
tabulatedPacking(p) == IF p = "PREMIUM" THEN 20 ELSE 10

\* round-half-up of the fraction n / d, for n >= 0 and d > 0.
roundHalfUp(n, d) == (2 * n + d) \div (2 * d)

\* round-half-up((50 + 0.02*w + delivery + packing + fee) * 1.05), in rupees.
formulaTotal(w, d, p, fee) ==
    roundHalfUp((5000 + 2 * w + 100 * tabulatedDelivery(d)
                    + 100 * tabulatedPacking(p) + 100 * fee) * 105, 10000)

\* The officer form's total has been computed for a valid weight.
costComputed == weightValid(form.weight) /\ ui.calculatedCost # 0

C10_OfficerCostNotLower ==
    (quote.customer # -1 /\ quote.officer # -1) => quote.customer <= quote.officer

\* C10 witness: both endpoints have computed a cost for a heavy parcel and
\* the officer's is strictly higher.
C10_Witness ==
    /\ quote.customer # -1
    /\ quote.officer # -1
    /\ form.weight = MaxWeight
    /\ quote.customer < quote.officer

\* C11: with delivery type and packing preference unchanged, replacing a
\* valid weight by a valid weight that is not smaller never lowers the
\* rounded total the form shows.
C11_CostMonotoneInWeight ==
    [][(/\ form'.deliveryType = form.deliveryType
        /\ form'.packingPreference = form.packingPreference
        /\ weightValid(form.weight)
        /\ weightValid(form'.weight)
        /\ ui.parcelWeightInGram = form.weight
        /\ form.weight <= form'.weight)
          => ui.calculatedCost <= ui'.calculatedCost]_vars

\* A heavier valid weight has been priced strictly higher than some lighter
\* one could be: the form shows the total of a weight above the minimum.
C11_Witness ==
    /\ form.weight = MaxWeight
    /\ form.deliveryType = "EXPRESS"
    /\ ui.parcelWeightInGram = MaxWeight
    /\ ui.calculatedCost > calculateCostOf([form EXCEPT !.weight = MinWeight]).calculatedCost


\* t occurs in s as a substring, letter case ignored.
isSubstringIgnoreCase(s, t) ==
    \E i \in 0..(Len(s) - Len(t)) :
        SubSeq(LOWER(s), i + 1, i + Len(t)) = LOWER(t)

nameMatches(f) ==
    {i \in 1..Len(feedbackTable) :
        isSubstringIgnoreCase(feedbackTable[i].customerName, f)}
bookingIdMatches(f) ==
    {i \in 1..Len(feedbackTable) : isSubstringIgnoreCase(feedbackTable[i].bookingId, f)}
descriptionMatches(f) ==
    {i \in 1..Len(feedbackTable) :
        isSubstringIgnoreCase(feedbackTable[i].feedbackDescription, f)}

contentSet == {pageResp.body.content[i] : i \in 1..Len(pageResp.body.content)}

\* The last response is a feedback page for a request with a non-blank filter.
filteredFeedbackPage ==
    /\ pageResp.op = "getOfficerFeedbacks"
    /\ pageResp.status = 200
    /\ pageResp.filterParam.present
    /\ trim(pageResp.filterParam.value) # <<>>

\* C12: a feedback page for a non-blank filter holds only customer-name
\* matches when some feedback matches by customer name, only booking-id
\* matches when none matches by name and some matches by booking id, and
\* only description matches when none matches by name or booking id and
\* some matches by description.
C12_FilterPriority ==
    filteredFeedbackPage =>
        LET f == trim(pageResp.filterParam.value)
        IN  /\ nameMatches(f) # {} => contentSet \subseteq nameMatches(f)
            /\ (nameMatches(f) = {} /\ bookingIdMatches(f) # {})
                  => contentSet \subseteq bookingIdMatches(f)
            /\ (nameMatches(f) = {} /\ bookingIdMatches(f) = {}
                    /\ descriptionMatches(f) # {})
                  => contentSet \subseteq descriptionMatches(f)

\* C13: a feedback page for a filter that matches no feedback by customer
\* name, booking id or description has no content and totalElements 0.
C13_NoMatchGivesEmptyPage ==
    filteredFeedbackPage =>
        LET f == trim(pageResp.filterParam.value)
        IN  (nameMatches(f) = {} /\ bookingIdMatches(f) = {}
                 /\ descriptionMatches(f) = {})
              => /\ pageResp.body.content = <<>>
                 /\ pageResp.body.totalElements = 0

\* The page and size a listing request asks for, defaults included.
requestedPage == IF pageResp.pageParam.present THEN pageResp.pageParam.value ELSE 0
requestedSize == IF pageResp.sizeParam.present THEN pageResp.sizeParam.value ELSE 10

\* The least number of pages of the given size that hold n items.
ceilDiv(n, size) == CHOOSE k \in 0..n : k * size >= n /\ (k = 0 \/ (k - 1) * size < n)

min(a, b) == IF a < b THEN a ELSE b
max(a, b) == IF a > b THEN a ELSE b

\* C14: for n bookings and a request with page >= 0 and size > 0 the booking
\* listing answers with min(size, max(0, n - page*size)) items,
\* totalElements n, totalPages ceil(n/size), currentPage page and pageSize
\* size; page 0 of size 10 over 25 bookings has 10 items and 3 pages.
C14_BookingPageShape ==
    (pageResp.op = "getOfficerBookings" /\ requestedPage >= 0 /\ requestedSize > 0)
      => LET n == Len(bookings)
         IN  /\ pageResp.status = 200
             /\ Len(pageResp.body.content)
                    = min(requestedSize, max(0, n - requestedPage * requestedSize))
             /\ pageResp.body.totalElements = n
             /\ pageResp.body.totalPages = ceilDiv(n, requestedSize)
             /\ pageResp.body.number = requestedPage
             /\ pageResp.body.size = requestedSize
             /\ (n = 25 /\ requestedPage = 0 /\ requestedSize = 10)
                   => /\ Len(pageResp.body.content) = 10
                      /\ pageResp.body.totalPages = 3

\* Page 0 of size 10 has been served over 25 bookings.
C14_Witness ==
    /\ pageResp.op = "getOfficerBookings"
    /\ pageResp.pageParam = Given(0)
    /\ pageResp.sizeParam = Given(10)
    /\ Len(bookings) = 25
    /\ Len(pageResp.body.content) = 10

\* The items page number page of the given size holds when n items numbered
\* in creation order are listed newest first.
newestFirstSlice(n, page, size) ==
    [k \in 1..min(size, max(0, n - page * size)) |-> n - page * size - k + 1]

\* C15: every unfiltered listing page (the booking listing, and the feedback
\* listing without a filter or with a blank one) holds the items of its
\* position in descending creation order, so that pages 0, 1, 2, ... in a
\* row are the whole store in that order.
C15_UnfilteredNewestFirst ==
    /\ (pageResp.op = "getOfficerBookings" /\ pageResp.status = 200)
          => pageResp.body.content
                 = newestFirstSlice(Len(bookings), requestedPage, requestedSize)
    /\ (/\ pageResp.op = "getOfficerFeedbacks"
        /\ pageResp.status = 200
        /\ (~pageResp.filterParam.present \/ trim(pageResp.filterParam.value) = <<>>))
          => pageResp.body.content
                 = newestFirstSlice(Len(feedbackTable), requestedPage, requestedSize)

loginResponse == auth.op \in {"login", "officerLogin"}
requiredRoleOf(op) == IF op = "login" THEN "CUSTOMER" ELSE "OFFICER"

\* The users that hold the identifier of the last login request.
holders == {i \in 1..Len(customers) : customers[i].uniqueId = auth.request.email}

withoutId(table, uniqueId) == SelectSeq(table, LAMBDA r : r.uniqueId # uniqueId)

\* C18: a failed login or officer login carries the message the same request
\* gets from the store that differs only in holding no user with the
\* supplied unique id.
C18_FailureHidesExistence ==
    (loginResponse /\ ~auth.success) =>
        auth.message
            = loginOf(auth.op, requiredRoleOf(auth.op),
                      withoutId(customers, auth.request.email), auth.request).message

\* C19: no two users share an e-mail address, and a register call for an
\* address that is already present answers success=false with 'Email already
\* registered', creates no user and changes no user.
C19_EmailUnique ==
    /\ [](\A i, j \in 1..Len(customers) :
              i # j => customers[i].email # customers[j].email)
    /\ [][\A email \in Emails, role \in RoleNames, at \in 1..Len(Times),
             random \in Randoms, constraintRejects \in BOOLEAN :
             (/\ Register(email, "p", role, at, random, constraintRejects)
              /\ \E i \in 1..Len(customers) : customers[i].email = email)
                => /\ ~auth'.success
                   /\ auth'.message = "Email already registered"
                   /\ customers' = customers]_vars

\* A registration has been refused for an address that a user holds.
C19_Witness ==
    /\ auth.op = "register"
    /\ ~auth.success
    /\ auth.message = "Email already registered"
    /\ \E i \in 1..Len(customers) : customers[i].email = auth.request.email

\* C20: no two users have the same uniqueId, whatever the registration times
\* and random suffixes were.
C20_UniqueIdUnique ==
    \A i, j \in 1..Len(customers) :
        i # j => customers[i].uniqueId # customers[j].uniqueId


\* C21: no two bookings have the same bookingId, two officer bookings
\* created within the same millisecond and officer bookings beside customer
\* bookings included.
C21_BookingIdUnique ==
    \A i, j \in BookingIds : i # j => bookings[i].bookingId # bookings[j].bookingId


\* C22: a stored password hash changes only in a change-password call that
\* answers success, for the user of the token, whose supplied current
\* password matches the stored hash and whose new password equals the
\* confirmation; the new hash is the hash of the new password; a call that
\* answers success=false leaves every stored hash as it was, and a call
\* with an unknown user, a wrong current password, a mismatched or missing
\* confirmation or a failing save answers success=false.
C22_PasswordChangeGuarded ==
    [][/\ \A i \in 1..Len(customers) :
             customers'[i].password # customers[i].password
               => /\ auth'.op = "changePassword"
                  /\ auth'.success
                  /\ auth'.request.userId = i
       /\ (auth'.op = "changePassword" /\ ~auth'.success) => customers' = customers
       /\ (auth'.op = "changePassword" /\ auth'.success)
             => LET request == auth'.request
                IN  /\ request.userId \in 1..Len(customers)
                    /\ customers[request.userId].password
                           = [hash |-> request.currentPassword]
                    /\ request.newPassword # "null"
                    /\ request.newPassword = request.confirmPassword
                    /\ customers'[request.userId].password
                           = [hash |-> request.newPassword]]_vars

\* The officer's password has been changed to q and the officer has logged
\* in with it.
C22_Witness ==
    /\ customers[2].password = [hash |-> "q"]
    /\ customers[1].password = [hash |-> "p"]
    /\ auth.op = "officerLogin"
    /\ auth.success
    /\ auth.request.password = "q"


\* C23: createBooking persists a booking only for a token of role CUSTOMER
\* and createOfficerBooking only for a token of role OFFICER, the token's
\* e-mail resolving to a user; for any other token the answer is
\* success=false with no booking and the booking store is unchanged.
C23_CreateRequiresRole ==
    [][\A tok \in Tokens, req \in CreateRequests :
          /\ (CreateBooking(tok, req)
                /\ (tok.role # "CUSTOMER" \/ tok.email \notin Users))
                => /\ ~resp'.success
                   /\ resp'.booking = 0
                   /\ bookings' = bookings
          /\ (CreateOfficerBooking(tok, req)
                /\ (tok.role # "OFFICER" \/ tok.email \notin Users))
                => /\ ~resp'.success
                   /\ resp'.booking = 0
                   /\ bookings' = bookings
          /\ (CreateBooking(tok, req) /\ bookings' # bookings)
                => tok.role = "CUSTOMER" /\ tok.email \in Users
          /\ (CreateOfficerBooking(tok, req) /\ bookings' # bookings)
                => tok.role = "OFFICER" /\ tok.email \in Users]_vars

\* A createBooking request has been refused with no booking data while the
\* store already holds a booking.
C23_Witness ==
    /\ resp.op = "createBooking"
    /\ ~resp.success
    /\ resp.booking = 0
    /\ Len(bookings) = 1


\* C24: processPayment changes no field of the paid booking other than its
\* status (booking id, customer, weight, options and service cost are as
\* before the request), changes no other booking and creates or removes
\* none.
C24_PaymentChangesOnlyStatus ==
    [][\A id \in 1..MaxBookings, saveFails \in BOOLEAN :
          ProcessPayment(id, saveFails)
              => /\ Len(bookings') = Len(bookings)
                 /\ \A i \in 1..Len(bookings) :
                       /\ [bookings'[i] EXCEPT !.status = bookings[i].status]
                              = bookings[i]
                       /\ i # getBookingById(id) => bookings'[i] = bookings[i]]_vars

\* A payment has succeeded for the second of two bookings, whose status is
\* now BOOKED and whose cost is the one it was created with.
C24_Witness ==
    /\ resp = Response("processPayment", 2, TRUE)
    /\ Len(bookings) = 2
    /\ bookings[2].status = "BOOKED"
    /\ bookings[2].cost > 0
    /\ Len(payments[2]) = 1
    /\ payments[2][1].amount = bookings[2].cost


\* C25: a request that read a booking writes its status without regard to
\* what was written after its read: processPayment succeeds and leaves
\* status BOOKED, a status update and a cancellation permitted by the status
\* they read succeed and leave their own status, so after interleaved
\* requests the persisted status is the one written last.
C25_LastWriteWins ==
    [][\A k \in 1..Len(inflight) :
          /\ \A saveFails \in BOOLEAN :
                (CompletePayment(k, saveFails) /\ ~PaymentExists(inflight[k].b))
                    => /\ inflight'[k].success
                       /\ ~saveFails => bookings'[inflight[k].b].status = "BOOKED"
          /\ (CompleteStatusUpdate(k)
                /\ transitionAllowed(inflight[k].row.status, inflight[k].target))
                => /\ inflight'[k].success
                   /\ bookings'[inflight[k].b].status = inflight[k].target
          /\ (CompleteCancel(k) /\ inflight[k].row.status = "BOOKED")
                => /\ inflight'[k].success
                   /\ bookings'[inflight[k].b].status = "CANCELLED"]_vars

\* A payment read a BOOKED booking, a cancellation then read it and wrote
\* CANCELLED, and the payment wrote BOOKED after that: both succeeded.
C25_Witness ==
    /\ Len(inflight) = 2
    /\ inflight[1].op = "processPayment" /\ inflight[2].op = "cancelBooking"
    /\ inflight[1].b = inflight[2].b
    /\ inflight[1].pc = "done" /\ inflight[1].success
    /\ inflight[2].pc = "done" /\ inflight[2].success
    /\ bookings[inflight[1].b].status = "BOOKED"


\* C27: in every reachable state, each booking that has a Feedback record
\* has status DELIVERED.
C27_FeedbackOnlyOnDelivered ==
    \A b \in BookingIds : feedbacks[b] # <<>> => bookings[b].status = "DELIVERED"


\* C28: whatever the interleaving of the existence checks and the saves of
\* concurrent addFeedback requests, a booking has at most one Feedback
\* record and at most one of the requests for it has answered with success.
C28_OneFeedbackUnderRace ==
    \A b \in BookingIds :
        /\ Len(feedbacks[b]) <= 1
        /\ Cardinality({k \in 1..Len(inflight) :
                           /\ inflight[k].op = "addFeedback"
                           /\ inflight[k].b = b
                           /\ inflight[k].success}) <= 1


\* C26: whenever isLoading is true it eventually becomes false, every
\* outstanding generateInvoice call being answered with a response or with
\* an error.
C26_LoadingEnds == invoice.isLoading ~> ~invoice.isLoading


\* x thousandths rounded to the nearest hundredth is r hundredths.
nearestHundredth(r, x) == 10 * r - 5 <= x /\ x < 10 * r + 5

\* What computeTotals must leave in totalAmount for component state inv.
expectedTotal(total, inv) ==
    IF ~inv.paidAmount.isNull /\ ~inv.paidAmount.isNaN
    THEN nearestHundredth(total, inv.paidAmount.value)
    ELSE nearestHundredth(total, inv.invoiceData.serviceCost + 50 * 1000)

\* C30: computeTotals sets totalAmount to the paid amount of the URL when
\* there is one and it is a number, and otherwise to serviceCost + 50, in
\* both cases rounded to two decimals; for an officer booking, whose
\* persisted service cost already contains the administrative fee, the
\* total without a paid amount is the persisted service cost plus 50.
C30_TotalAmount ==
    [][/\ \A k \in 1..MaxRequests :
             GenerateInvoiceNext(k, TRUE)
                 => /\ expectedTotal(invoice'.totalAmount, invoice')
                    /\ LET row == bookings[invoice.requests[k]]
                       IN  (invoice.paidAmount.isNull \/ invoice.paidAmount.isNaN)
                              => /\ invoice'.totalAmount = (row.cost + 50) * 100
                                 /\ row.cost = calculateServiceCost(row.weight,
                                        row.deliveryType, row.packing, TRUE)
       /\ BookingDetails => expectedTotal(invoice'.totalAmount, invoice')]_vars

\* The invoice of an officer booking is shown with no paid amount in the
\* URL: the total is the persisted cost, administrative fee included, plus 50.
C30_Witness ==
    /\ invoice.invoiceData.present /\ ~invoice.invoiceData.demo
    /\ ~invoice.isLoading
    /\ invoice.paidAmount.isNull
    /\ \E b \in BookingIds :
          /\ bookings[b].cost = calculateServiceCost(bookings[b].weight,
                 bookings[b].deliveryType, bookings[b].packing, FALSE) + 52
          /\ invoice.invoiceData.serviceCost = bookings[b].cost * 1000
          /\ invoice.totalAmount = (bookings[b].cost + 50) * 100



\* C29: when every getOfficerFeedbacks call the page issued has been
\* answered, the feedbacks, totalElements and currentPage it shows are those
\* of a response to the call issued last.
C29_LatestCallShown ==
    LET calls == officerFeedback.requests
        last == calls[Len(calls)]
    IN  (/\ calls # <<>>
         /\ \A k \in 1..Len(calls) : calls[k].state = "done")
            => \E response \in responsesOf(last) :
                  /\ officerFeedback.feedbacks = response.content
                  /\ officerFeedback.totalElements = response.totalElements
                  /\ officerFeedback.currentPage = response.number

====
